---- MODULE Spec2Model ----
(***************************************************************************)
(* Model of SL-wallet's transaction builder (broadcast_transaction.py) and *)
(* of its wire-message helpers (network.py).                               *)
(*                                                                         *)
(* Bytes objects are sequences of integers 0..255.  A Python int is a      *)
(* record [neg, limbs]: a sign and the magnitude in base 65536, least      *)
(* significant limb first, without leading zero limbs, so that 64-bit and  *)
(* 128-bit values and the OverflowError of int.to_bytes are representable. *)
(* A str is a sequence of one-character strings.  The crypto and address   *)
(* modules are collaborators: their hashes and keys are stand-ins with the *)
(* lengths and the determinism of the real ones.                           *)
(***************************************************************************)
EXTENDS Integers, Sequences, FiniteSets, TLC

\* ------------------------------------------------------------------ bounds

\* The longest signature the signer may return.
MaxSigLen == 256
\* The longest command name passed to make_message.
MaxCmdLen == 13
\* The longest literal payload passed to make_message.
MaxPayloadLen == 2

\* --------------------------------------------------------------- constants

BCH_SIGHASH_TYPE == 65
TRANSACTION_VERSION_1 == 1
OP_DUP == 118
OP_HASH160 == 169
OP_EQUALVERIFY == 136
OP_CHECKSIG == 172
DEFAULT_PORT == 8333
PROTOCOL_VERSION == 70015
SPV_SERVICES == 0
\* bytes([RELAY]) with RELAY = False is the byte 0.
RELAY == 0

\* ------------------------------------------------------------ Python ints

RECURSIVE LimbsOf(_)
LimbsOf(x) == IF x = 0 THEN <<>> ELSE <<x % 65536>> \o LimbsOf(x \div 65536)

\* A non-negative Python int below 2^31.
PyInt(x) == [neg |-> FALSE, limbs |-> LimbsOf(x)]
\* A negative Python int above -2^31.
PyNeg(x) == [neg |-> TRUE, limbs |-> LimbsOf(x)]
\* A non-negative Python int given by its base-65536 limbs.
PyBig(l) == [neg |-> FALSE, limbs |-> l]

\* 0xffffffff - 1
SEQUENCE_NUMBER == PyBig(<<65534, 65535>>)
\* 0xe8f3e1e3
MAINNET_NETWORK_MAGIC == PyBig(<<57827, 59635>>)
\* 0x00000000000000000000ffff7f000001
DEFAULT_IPV6_ADDRESS == PyBig(<<1, 32512, 65535>>)

RECURSIVE ByteDigits(_)
\* The base-256 digits of a magnitude, least significant first.
ByteDigits(limbs) ==
    IF limbs = <<>> THEN <<>>
    ELSE <<Head(limbs) % 256, Head(limbs) \div 256>> \o ByteDigits(Tail(limbs))

RECURSIVE StripZeros(_)
StripZeros(d) ==
    IF d = <<>> THEN <<>>
    ELSE IF d[Len(d)] = 0 THEN StripZeros(SubSeq(d, 1, Len(d) - 1))
    ELSE d

\* The number of bytes the magnitude of v needs.
ByteLength(v) == Len(StripZeros(ByteDigits(v.limbs)))

Reverse(s) == [i \in 1..Len(s) |-> s[Len(s) + 1 - i]]

\* int.to_bytes(n, byteorder) raises OverflowError for a negative int and for
\* one that does not fit in n bytes.
CanToBytes(v, n) == ~v.neg /\ ByteLength(v) <= n

ToBytes(v, n, byteorder) ==
    LET d == StripZeros(ByteDigits(v.limbs))
        le == [i \in 1..n |-> IF i <= Len(d) THEN d[i] ELSE 0]
    IN  IF byteorder = "little" THEN le ELSE Reverse(le)

\* bytes([x]) raises ValueError unless 0 <= x < 256.
CanBytes1(x) == x >= 0 /\ x < 256
Bytes1(x) == <<x>>

\* ----------------------------------------------------------------- hex text

HexLower == <<"0","1","2","3","4","5","6","7","8","9","a","b","c","d","e","f">>
HexUpper == <<"0","1","2","3","4","5","6","7","8","9","A","B","C","D","E","F">>

IsHexChar(c) == \E i \in 1..16 : HexLower[i] = c \/ HexUpper[i] = c
HexVal(c) == (CHOOSE i \in 1..16 : HexLower[i] = c \/ HexUpper[i] = c) - 1

\* bytes.fromhex(s) raises ValueError for a non-hex character and for an odd
\* number of digits.
CanFromHex(s) == Len(s) % 2 = 0 /\ \A i \in 1..Len(s) : IsHexChar(s[i])
FromHex(s) ==
    [i \in 1..(Len(s) \div 2) |-> 16 * HexVal(s[2 * i - 1]) + HexVal(s[2 * i])]

\* bytes.hex(): two lower-case digits per byte.
ToHex(b) ==
    [i \in 1..(2 * Len(b)) |->
        IF i % 2 = 1 THEN HexLower[(b[(i + 1) \div 2] \div 16) + 1]
        ELSE HexLower[(b[i \div 2] % 16) + 1]]

\* -------------------------------------------------- external collaborators

RECURSIVE Mix(_, _, _)
\* An order-sensitive digest of b[lo..hi], folded by halves.
Mix(b, lo, hi) ==
    IF lo > hi THEN 5381
    ELSE IF lo = hi THEN (b[lo] * 131 + 7) % 65521
    ELSE LET mid == (lo + hi) \div 2
         IN  (Mix(b, lo, mid) * 257 + Mix(b, mid + 1, hi) * 3 + hi - lo) % 65521

\* Byte i of an n-byte hash value grown from the digest a.
Spread(a, i) == (((a + 1) * (i * i + 3 * i + 41)) % 65521) % 256

\* crypto: one round of the hash, as a stand-in with a 32-byte result that
\* depends on every byte of its input and on their order.
sha256(b) == LET a == Mix(b, 1, Len(b)) IN [i \in 1..32 |-> Spread(a, i)]

\* crypto.dsha256: the hash applied twice.
dsha256(b) == sha256(sha256(b))

\* address.Address.from_pubkey(...).hash_addr: a 20-byte public-key hash.
hash160(b) ==
    LET a == Mix(sha256(b), 1, 32) IN [i \in 1..20 |-> Spread(a + 77, i)]

\* The private keys the caller may hold, each with the length of the public
\* key EllipticCurveKey.serialized_pubkey returns for it (33: compressed, 65:
\* uncompressed; the others are test doubles with over-long keys).
WifKeys == {"wif:pubkey33", "wif:pubkey65", "wif:pubkey255", "wif:pubkey256"}

PubKeyLen(wifkey) ==
    CASE wifkey = "wif:pubkey33" -> 33
      [] wifkey = "wif:pubkey65" -> 65
      [] wifkey = "wif:pubkey255" -> 255
      [] wifkey = "wif:pubkey256" -> 256

\* EllipticCurveKey.from_wifkey(wifkey).serialized_pubkey()
serialized_pubkey(wifkey) ==
    LET n == PubKeyLen(wifkey)
    IN  [i \in 1..n |-> IF i = 1 THEN (IF n = 65 THEN 4 ELSE 2)
                        ELSE (n + 5 * i) % 256]

\* The signature lengths the signer may return.
SigLens ==
    {l \in 0..MaxSigLen : l \in {0, 71, 185, 217, 219, 220} \/ l >= 254}
\* The signer's randomness.
SigNonces == {0, 1}

\* EllipticCurveKey.sign(digest): a signature of n bytes drawn with nonce k;
\* it depends on the digest signed.
sign(wifkey, digest, n, k) ==
    [i \in 1..n |->
        IF i = 1 THEN 48
        ELSE (digest[((i - 1) % 32) + 1] + PubKeyLen(wifkey) + k + i) % 256]

CashAddr == "bitcoincash:qq7ur36zd8uq2wqv0mle2khzwt79ue9ty57mvd95r0"
Addresses == {CashAddr, "not-an-address"}

\* Address.from_string raises for a string that decodes to no address.
CanDecodeAddress(a) == a = CashAddr
\* Address.from_string(a).hash_addr
AddressHash(a) ==
    <<61, 193, 199, 66, 105, 248, 5, 56, 12, 126,
      255, 149, 90, 226, 114, 252, 94, 100, 171, 37>>

\* ------------------------------------------------------------------ inputs

DemoTxId ==
    <<"3","1","b","a","6","1","e","2","3","b","c","5","3","2","e","3",
      "2","1","0","c","6","5","2","1","7","5","7","f","6","f","9","c",
      "f","4","6","5","4","0","f","c","9","a","5","7","d","d","2","c",
      "1","4","9","3","5","5","1","b","1","4","f","7","f","4","d","4">>

\* A transaction id written in upper case.
UpperTxId == [i \in 1..64 |-> HexUpper[((7 * i + i \div 16) % 16) + 1]]

\* Transaction ids (64 hex digits), and text bytes.fromhex rejects.
TxIds == {DemoTxId, UpperTxId, SubSeq(DemoTxId, 1, 63)}
Amounts == {PyNeg(1), PyInt(0), PyInt(29066), PyInt(29316), PyInt(29317)}
PrevAmounts == {PyInt(29316)}
\* 522542, and 2^32, which does not fit in four bytes.
Locktimes == {PyInt(522542), PyBig(<<0, 0, 1>>)}
PrevIndexes == {PyInt(0), PyInt(258)}

\* ------------------------------------------------------------------- state

VARIABLES
    pc,               \* where the running call stands
    fn,               \* the function called last
    args,             \* its arguments
    publicKey,        \* construct_transaction's locals
    enc,
    preimage,
    prehash,
    signature,
    unlockingScript,
    rawtx,
    txid,
    ret,              \* the value returned
    exc               \* the exception raised

vars == <<pc, fn, args, publicKey, enc, preimage, prehash, signature,
          unlockingScript, rawtx, txid, ret, exc>>

locals == <<publicKey, enc, preimage, prehash, signature, unlockingScript,
            rawtx, txid>>

\* A local not assigned yet.
Unset == <<>>

Init ==
    /\ pc = "idle"
    /\ fn = "none"
    /\ args = Unset
    /\ publicKey = Unset
    /\ enc = Unset
    /\ preimage = Unset
    /\ prehash = Unset
    /\ signature = Unset
    /\ unlockingScript = Unset
    /\ rawtx = Unset
    /\ txid = Unset
    /\ ret = Unset
    /\ exc = "none"

\* No call is running.
AtRest == pc \in {"idle", "done", "raised"}

\* A fresh frame for a call of f with arguments a.
Enter(f, a) ==
    /\ AtRest
    /\ pc' = "called"
    /\ fn' = f
    /\ args' = a
    /\ publicKey' = Unset
    /\ enc' = Unset
    /\ preimage' = Unset
    /\ prehash' = Unset
    /\ signature' = Unset
    /\ unlockingScript' = Unset
    /\ rawtx' = Unset
    /\ txid' = Unset
    /\ ret' = Unset
    /\ exc' = "none"

\* The call ends with exception e and returns nothing.
Raise(e) ==
    /\ pc' = "raised"
    /\ exc' = e
    /\ UNCHANGED <<fn, args, ret>>

\* ------------------------------------------------- construct_transaction

P2PKH(h) ==
    Bytes1(OP_DUP) \o Bytes1(OP_HASH160) \o Bytes1(20) \o h
        \o Bytes1(OP_EQUALVERIFY) \o Bytes1(OP_CHECKSIG)

CallConstructTransaction ==
    \E wifkey \in WifKeys, receive_address \in Addresses, amount \in Amounts,
       locktime \in Locktimes, prevtx_id \in TxIds,
       prevtx_index \in PrevIndexes, prevamount \in PrevAmounts :
        Enter("construct_transaction",
              [wifkey |-> wifkey, receive_address |-> receive_address,
               amount |-> amount, locktime |-> locktime,
               prevtx_id |-> prevtx_id, prevtx_index |-> prevtx_index,
               prevamount |-> prevamount])

InTx(p) == fn = "construct_transaction" /\ pc = p

\* Lines 33-42: the keys and the two addresses.
DeriveKeys ==
    /\ InTx("called")
    /\ LET pk == serialized_pubkey(args.wifkey)
       IN  IF ~CanBytes1(Len(pk))
           THEN Raise("ValueError") /\ UNCHANGED locals
           ELSE IF ~CanDecodeAddress(args.receive_address)
           THEN Raise("AddressError") /\ publicKey' = pk
                /\ UNCHANGED <<enc, preimage, prehash, signature,
                               unlockingScript, rawtx, txid>>
           ELSE /\ pc' = "keys"
                /\ publicKey' = pk
                /\ UNCHANGED <<fn, args, enc, preimage, prehash, signature,
                               unlockingScript, rawtx, txid, ret, exc>>

\* The first conversion of lines 58-70 that raises, or "none".
EncodeError ==
    IF ~CanToBytes(args.amount, 8) THEN "OverflowError"
    ELSE IF ~CanToBytes(args.locktime, 4) THEN "OverflowError"
    ELSE IF ~CanFromHex(args.prevtx_id) THEN "ValueError"
    ELSE IF ~CanToBytes(args.prevtx_index, 4) THEN "OverflowError"
    ELSE IF ~CanToBytes(args.prevamount, 8) THEN "OverflowError"
    ELSE "none"

Encoded ==
    LET nSequence == ToBytes(SEQUENCE_NUMBER, 4, "little")
        nAmount == ToBytes(args.amount, 8, "little")
        prevHash == Reverse(FromHex(args.prevtx_id))
        prevIndex == ToBytes(args.prevtx_index, 4, "little")
        prevLockingScript == P2PKH(hash160(publicKey))
        lockingScript == P2PKH(AddressHash(args.receive_address))
        lengthLockingScript == Bytes1(Len(lockingScript))
        outpoint == prevHash \o prevIndex
    IN  [lengthPublicKey |-> Bytes1(Len(publicKey)),
         nVersion |-> ToBytes(PyInt(TRANSACTION_VERSION_1), 4, "little"),
         hashtype |-> BCH_SIGHASH_TYPE,
         nHashtype |-> ToBytes(PyInt(BCH_SIGHASH_TYPE), 4, "little"),
         nSequence |-> nSequence,
         nAmount |-> nAmount,
         nLocktime |-> ToBytes(args.locktime, 4, "little"),
         prevHash |-> prevHash,
         prevIndex |-> prevIndex,
         prevValue |-> ToBytes(args.prevamount, 8, "little"),
         nInputs |-> Bytes1(1),
         nOutputs |-> Bytes1(1),
         prevLockingScript |-> prevLockingScript,
         lengthPrevLockingScript |-> Bytes1(Len(prevLockingScript)),
         lockingScript |-> lockingScript,
         lengthLockingScript |-> lengthLockingScript,
         outpoint |-> outpoint,
         hashPrevouts |-> dsha256(outpoint),
         hashSequence |-> dsha256(nSequence),
         hashOutputs |-> dsha256(nAmount \o lengthLockingScript \o lockingScript),
         lengthUnlockingScript |-> Unset]

\* Lines 45-101: every field in its wire form, and the three hashes.
EncodeFields ==
    /\ InTx("keys")
    /\ IF EncodeError # "none"
       THEN Raise(EncodeError) /\ UNCHANGED locals
       ELSE /\ pc' = "fields"
            /\ enc' = Encoded
            /\ UNCHANGED <<fn, args, publicKey, preimage, prehash, signature,
                           unlockingScript, rawtx, txid, ret, exc>>

\* PreimageOf with the amount spent in the place of the previous amount.
PreimageSpentAmount(e) ==
    e.nVersion \o e.hashPrevouts \o e.hashSequence \o e.outpoint
        \o e.lengthPrevLockingScript \o e.prevLockingScript \o e.nAmount
        \o e.nSequence \o e.hashOutputs \o e.nLocktime \o e.nHashtype

\* Lines 105-117.
PreimageOf(e) ==
    e.nVersion \o e.hashPrevouts \o e.hashSequence \o e.outpoint
        \o e.lengthPrevLockingScript \o e.prevLockingScript \o e.prevValue
        \o e.nSequence \o e.hashOutputs \o e.nLocktime \o e.nHashtype

BuildPreimage ==
    /\ InTx("fields")
    /\ pc' = "preimage"
    /\ preimage' = PreimageOf(enc)
    /\ UNCHANGED <<fn, args, publicKey, enc, prehash, signature,
                   unlockingScript, rawtx, txid, ret, exc>>

\* Lines 123-125: the digest, the signature and its length byte.
Sign ==
    /\ InTx("preimage")
    /\ \E n \in SigLens, k \in SigNonces :
        LET digest == dsha256(preimage)
            sig == sign(args.wifkey, digest, n, k)
        IN  /\ prehash' = digest
            /\ signature' = sig
            /\ IF ~CanBytes1(Len(sig) + 1)
               THEN Raise("ValueError")
               ELSE pc' = "signed" /\ UNCHANGED <<fn, args, ret, exc>>
            /\ UNCHANGED <<publicKey, enc, preimage, unlockingScript, rawtx,
                           txid>>

\* Lines 128-134.
UnlockingScriptOf(sig, e, pk) ==
    Bytes1(Len(sig) + 1) \o sig \o Bytes1(e.hashtype) \o e.lengthPublicKey
        \o pk

\* BuildUnlockingScript that signs again over the finished input: the
\* preimage takes the unlocking script as its script code.
BuildUnlockingScriptResign ==
    /\ InTx("signed")
    /\ LET us == UnlockingScriptOf(signature, enc, publicKey)
           pre == enc.nVersion \o enc.hashPrevouts \o enc.hashSequence
                      \o enc.outpoint \o Bytes1(Len(us) % 256) \o us
                      \o enc.prevValue \o enc.nSequence \o enc.hashOutputs
                      \o enc.nLocktime \o enc.nHashtype
       IN  /\ unlockingScript' = us
           /\ preimage' = pre
           /\ prehash' = dsha256(pre)
           /\ IF ~CanBytes1(Len(us))
              THEN Raise("ValueError") /\ UNCHANGED enc
              ELSE /\ pc' = "unlocked"
                   /\ enc' = [enc EXCEPT !.lengthUnlockingScript = Bytes1(Len(us))]
                   /\ UNCHANGED <<fn, args, ret, exc>>
           /\ UNCHANGED <<publicKey, signature, rawtx, txid>>

\* BuildUnlockingScript that cuts the script's length to its low byte
\* instead of failing.
BuildUnlockingScriptUnchecked ==
    /\ InTx("signed")
    /\ pc' = "unlocked"
    /\ unlockingScript' = UnlockingScriptOf(signature, enc, publicKey)
    /\ enc' = [enc EXCEPT
                 !.lengthUnlockingScript = Bytes1(Len(unlockingScript') % 256)]
    /\ UNCHANGED <<fn, args, publicKey, preimage, prehash, signature,
                   rawtx, txid, ret, exc>>

\* Lines 128-136: the unlocking script and its length byte.
BuildUnlockingScript ==
    /\ InTx("signed")
    /\ LET us == UnlockingScriptOf(signature, enc, publicKey)
       IN  /\ unlockingScript' = us
           /\ IF ~CanBytes1(Len(us))
              THEN Raise("ValueError") /\ UNCHANGED enc
              ELSE /\ pc' = "unlocked"
                   /\ enc' = [enc EXCEPT !.lengthUnlockingScript = Bytes1(Len(us))]
                   /\ UNCHANGED <<fn, args, ret, exc>>
           /\ UNCHANGED <<publicKey, preimage, prehash, signature, rawtx,
                          txid>>

\* RawTxOf with the previous txid left in display order.
RawTxDisplayOrder(e, us) ==
    e.nVersion \o e.nInputs \o Reverse(e.prevHash) \o e.prevIndex
        \o e.lengthUnlockingScript \o us \o e.nSequence \o e.nOutputs \o e.nAmount
        \o e.lengthLockingScript \o e.lockingScript \o e.nLocktime

\* Lines 139-156.
RawTxOf(e, us) ==
    e.nVersion \o e.nInputs \o e.prevHash \o e.prevIndex
        \o e.lengthUnlockingScript \o us \o e.nSequence \o e.nOutputs \o e.nAmount
        \o e.lengthLockingScript \o e.lockingScript \o e.nLocktime

\* BuildRawTx that does not wait for the unlocking script.
BuildRawTxEarly ==
    /\ fn = "construct_transaction" /\ pc \in {"signed", "unlocked"}
    /\ pc' = "serialized"
    /\ rawtx' = RawTxOf(enc, unlockingScript)
    /\ UNCHANGED <<fn, args, publicKey, enc, preimage, prehash, signature,
                   unlockingScript, txid, ret, exc>>

BuildRawTx ==
    /\ InTx("unlocked")
    /\ pc' = "serialized"
    /\ rawtx' = RawTxOf(enc, unlockingScript)
    /\ UNCHANGED <<fn, args, publicKey, enc, preimage, prehash, signature,
                   unlockingScript, txid, ret, exc>>

\* Lines 158-160: the identifier, and both results as hex text.
ReturnTx ==
    /\ InTx("serialized")
    /\ pc' = "done"
    /\ txid' = Reverse(dsha256(rawtx))
    /\ ret' = <<ToHex(rawtx), ToHex(txid')>>
    /\ UNCHANGED <<fn, args, publicKey, enc, preimage, prehash, signature,
                   unlockingScript, rawtx, exc>>

\* ----------------------------------------------------------- make_message

\* The ASCII characters command names are written with; "a" is 97.
AsciiLower ==
    <<"a","b","c","d","e","f","g","h","i","j","k","l","m",
      "n","o","p","q","r","s","t","u","v","w","x","y","z">>

IsAscii(c) == \E i \in 1..26 : AsciiLower[i] = c
Ord(c) == 96 + (CHOOSE i \in 1..26 : AsciiLower[i] = c)

\* cmd.encode('ascii') raises UnicodeEncodeError for a character that is not
\* ASCII.
CanEncodeAscii(cmd) == \A i \in 1..Len(cmd) : IsAscii(cmd[i])
EncodeAscii(cmd) == [i \in 1..Len(cmd) |-> Ord(cmd[i])]

\* n * b"\00": no bytes at all when n is negative.
ZeroBytes(n) == [i \in 1..n |-> 0]

\* Lines 31-36.
make_message(cmd, payload) ==
    LET magic == ToBytes(MAINNET_NETWORK_MAGIC, 4, "little")
        cmdb == EncodeAscii(cmd)
        command == cmdb \o ZeroBytes(12 - Len(cmdb))
        length == ToBytes(PyInt(Len(payload)), 4, "little")
        checksum == SubSeq(dsha256(payload), 1, 4)
    IN  magic \o command \o length \o checksum \o payload

\* "version" followed by further letters, cut to n characters.
CmdOfLen(n) ==
    [i \in 1..n |-> IF i <= 7 THEN <<"v", "e", "r", "s", "i", "o", "n">>[i]
                    ELSE AsciiLower[i]]

\* Command names of every length up to the bound, and one with a character
\* (e with an acute accent) that is not ASCII.
Commands == {CmdOfLen(n) : n \in 0..MaxCmdLen} \cup {<<"v", "e-acute">>}

RECURSIVE SeqsUpTo(_, _)
SeqsUpTo(S, n) ==
    IF n = 0 THEN {<<>>}
    ELSE LET shorter == SeqsUpTo(S, n - 1)
         IN  shorter \cup {Append(q, x) : q \in {r \in shorter : Len(r) = n - 1}, x \in S}

LiteralPayloads == SeqsUpTo({0, 255}, MaxPayloadLen)

\* The payloads a caller has at hand: literal bytes, the handshake payload
\* version_message has just returned, the transaction construct_transaction
\* has just returned (as bytes).
Payloads ==
    LiteralPayloads
        \cup (IF pc = "done" /\ fn = "version_message" THEN {ret} ELSE {})
        \cup (IF pc = "done" /\ fn = "construct_transaction"
              THEN {FromHex(ret[1])} ELSE {})

CallMakeMessage ==
    \E cmd \in Commands, payload \in Payloads :
        Enter("make_message", [cmd |-> cmd, payload |-> payload])

ReturnMakeMessage ==
    /\ fn = "make_message" /\ pc = "called"
    /\ IF ~CanEncodeAscii(args.cmd)
       THEN Raise("UnicodeEncodeError")
       ELSE IF ~CanToBytes(PyInt(Len(args.payload)), 4)
       THEN Raise("OverflowError")
       ELSE /\ pc' = "done"
            /\ ret' = make_message(args.cmd, args.payload)
            /\ UNCHANGED <<fn, args, exc>>
    /\ UNCHANGED locals

\* -------------------------------------------------------- version_message

\* int(time.time()): 2018-11-01, and 2^32 (the year 2106).
Clock == {PyInt(1541030400), PyBig(<<0, 0, 1>>)}
\* random.getrandbits(64)
Nonces == {PyInt(0), PyBig(<<513, 1027, 1541, 2055>>),
           PyBig(<<65535, 65535, 65535, 65535>>)}
\* 0, 522542, 2^32 - 1, 2^32, -1
LastBlocks == {PyInt(0), PyInt(522542), PyBig(<<65535, 65535>>),
               PyBig(<<0, 0, 1>>), PyNeg(1)}

\* NetAddr with the port in little-endian order.
NetAddrLittlePort ==
    ToBytes(PyInt(SPV_SERVICES), 8, "little")
        \o ToBytes(DEFAULT_IPV6_ADDRESS, 16, "big")
        \o ToBytes(PyInt(DEFAULT_PORT), 2, "little")

\* Lines 52-54 and 57-59: a network address record.
NetAddr ==
    ToBytes(PyInt(SPV_SERVICES), 8, "little")
        \o ToBytes(DEFAULT_IPV6_ADDRESS, 16, "big")
        \o ToBytes(PyInt(DEFAULT_PORT), 2, "big")

\* Lines 42-70, with the clock reading t and the random nonce r.
version_message(last_block, t, r) ==
    LET version == ToBytes(PyInt(PROTOCOL_VERSION), 4, "little")
        services == ToBytes(PyInt(SPV_SERVICES), 8, "little")
        timestamp == ToBytes(t, 8, "little")
        addr_recv == NetAddr
        addr_trans == NetAddr
        nonce == ToBytes(r, 8, "little")
        user_agent_bytes == Bytes1(0)
        start_height == ToBytes(last_block, 4, "little")
        relay == Bytes1(RELAY)
    IN  version \o services \o timestamp \o addr_recv \o addr_trans \o nonce
            \o user_agent_bytes \o start_height \o relay

CallVersionMessage ==
    \E last_block \in LastBlocks :
        Enter("version_message", [last_block |-> last_block])

ReturnVersionMessage ==
    /\ fn = "version_message" /\ pc = "called"
    /\ \E t \in Clock, r \in Nonces :
        IF ~CanToBytes(t, 8) \/ ~CanToBytes(r, 8)
              \/ ~CanToBytes(args.last_block, 4)
        THEN Raise("OverflowError")
        ELSE /\ pc' = "done"
             /\ ret' = version_message(args.last_block, t, r)
             /\ UNCHANGED <<fn, args, exc>>
    /\ UNCHANGED locals

\* ------------------------------------------------------------ the program

Next ==
    \/ CallConstructTransaction
    \/ DeriveKeys
    \/ EncodeFields
    \/ BuildPreimage
    \/ Sign
    \/ BuildUnlockingScript
    \/ BuildRawTx
    \/ ReturnTx
    \/ CallMakeMessage
    \/ ReturnMakeMessage
    \/ CallVersionMessage
    \/ ReturnVersionMessage

Spec == Init /\ [][Next]_vars

\* ------------------------------------------------------------- properties

RECURSIVE StripZeroLimbs(_)
StripZeroLimbs(l) ==
    IF l = <<>> THEN <<>>
    ELSE IF l[Len(l)] = 0 THEN StripZeroLimbs(SubSeq(l, 1, Len(l) - 1))
    ELSE l

\* The magnitude (as limbs) that an even number of little-endian bytes spell.
LEValue(b) ==
    StripZeroLimbs([i \in 1..(Len(b) \div 2) |-> b[2 * i - 1] + 256 * b[2 * i]])

MagLess(a, b) ==
    \/ Len(a) < Len(b)
    \/ /\ Len(a) = Len(b)
       /\ \E i \in 1..Len(a) :
            a[i] < b[i] /\ \A j \in (i + 1)..Len(a) : a[j] = b[j]

\* x < y for Python ints.
IntLess(x, y) ==
    IF x.neg /\ ~y.neg THEN TRUE
    ELSE IF ~x.neg /\ y.neg THEN FALSE
    ELSE IF x.neg THEN MagLess(y.limbs, x.limbs)
    ELSE MagLess(x.limbs, y.limbs)

TxCall == fn = "construct_transaction"
TxReturned == TxCall /\ pc = "done"
MsgReturned == fn = "make_message" /\ pc = "done"
VersionReturned == fn = "version_message" /\ pc = "done"

\* The recipient's locking script, byte by byte.
RecipientScript ==
    <<118, 169, 20>> \o AddressHash(args.receive_address) \o <<136, 172>>
\* The sender's (previous) locking script, byte by byte.
SenderScript ==
    <<118, 169, 20>> \o hash160(serialized_pubkey(args.wifkey)) \o <<136, 172>>

\* C1: the raw transaction returned is, field after field: version 1 (4 bytes
\* LE), input count 1, the previous txid byte-reversed (32 bytes), the
\* previous index (4 bytes LE), one byte with the unlocking script's length,
\* the unlocking script, the sequence fe ff ff ff, output count 1, the amount
\* (8 bytes LE), one byte with the locking script's length, the recipient's
\* locking script, the locktime (4 bytes LE); it begins 01 00 00 00 01.
C1_RawTxLayout ==
    TxReturned =>
        /\ CanFromHex(ret[1])
        /\ LET raw == FromHex(ret[1])
               us == unlockingScript
               n == Len(unlockingScript)
           IN  /\ Len(raw) = 85 + n
               /\ SubSeq(raw, 1, 5) = <<1, 0, 0, 0, 1>>
               /\ Reverse(SubSeq(raw, 6, 37)) = FromHex(args.prevtx_id)
               /\ LEValue(SubSeq(raw, 38, 41)) = args.prevtx_index.limbs
               /\ raw[42] = n
               /\ SubSeq(raw, 43, 42 + n) = us
               /\ us = <<Len(signature) + 1>> \o signature \o <<65>>
                          \o <<Len(publicKey)>> \o publicKey
               /\ SubSeq(raw, 43 + n, 46 + n) = <<254, 255, 255, 255>>
               /\ raw[47 + n] = 1
               /\ LEValue(SubSeq(raw, 48 + n, 55 + n)) = args.amount.limbs
               /\ raw[56 + n] = 25
               /\ SubSeq(raw, 57 + n, 81 + n) = RecipientScript
               /\ LEValue(SubSeq(raw, 82 + n, 85 + n)) = args.locktime.limbs

\* A transaction returned for previous index 258 and a 71-byte signature.
C1_Witness ==
    /\ TxReturned
    /\ args.prevtx_index = PyInt(258)
    /\ Len(signature) = 71
    /\ Len(rawtx) = 192

\* C2: the sighash preimage is, field after field: version (4 bytes LE), the
\* double-hash of the outpoint, the double-hash of the sequence, the outpoint
\* (reversed txid, then index in 4 bytes LE), one length byte and the sender's
\* P2PKH locking script, the previous amount (8 bytes LE), the sequence, the
\* double-hash of (amount, length byte, recipient locking script), the
\* locktime (4 bytes LE), the sighash type 41 00 00 00; and the value the
\* signer signs is the double-hash of this preimage.
C2_PreimageLayout ==
    (TxCall /\ preimage # Unset) =>
        /\ Len(preimage) = 182
        /\ SubSeq(preimage, 1, 4) = <<1, 0, 0, 0>>
        /\ SubSeq(preimage, 5, 36) = dsha256(SubSeq(preimage, 69, 104))
        /\ SubSeq(preimage, 37, 68) = dsha256(<<254, 255, 255, 255>>)
        /\ Reverse(SubSeq(preimage, 69, 100)) = FromHex(args.prevtx_id)
        /\ LEValue(SubSeq(preimage, 101, 104)) = args.prevtx_index.limbs
        /\ preimage[105] = 25
        /\ SubSeq(preimage, 106, 130) = SenderScript
        /\ LEValue(SubSeq(preimage, 131, 138)) = args.prevamount.limbs
        /\ SubSeq(preimage, 139, 142) = <<254, 255, 255, 255>>
        /\ SubSeq(preimage, 143, 174)
             = dsha256(ToBytes(args.amount, 8, "little") \o <<25>>
                          \o RecipientScript)
        /\ LEValue(SubSeq(preimage, 175, 178)) = args.locktime.limbs
        /\ SubSeq(preimage, 179, 182) = <<65, 0, 0, 0>>
        /\ prehash # Unset =>
              /\ prehash = sha256(sha256(preimage))
              /\ prehash # sha256(preimage)
              /\ \E k \in SigNonces :
                    signature = sign(args.wifkey, sha256(sha256(preimage)),
                                     Len(signature), k)

\* A 71-byte signature made over the preimage, previous index 258.
C2_Witness ==
    /\ TxCall /\ pc = "signed"
    /\ Len(signature) = 71
    /\ args.prevtx_index = PyInt(258)
    /\ args.amount = PyInt(29066)

\* The preimage and the digest are those of the arguments alone.
DigestOfArguments ==
    (TxCall /\ preimage # Unset) =>
        /\ preimage = PreimageOf(Encoded)
        /\ prehash # Unset => prehash = dsha256(PreimageOf(Encoded))

\* Once built, the preimage stays as it is to the end of the call, and so
\* does the digest once signed.
DigestFrame ==
    (TxCall /\ ~AtRest /\ preimage # Unset) =>
        /\ preimage' = preimage
        /\ prehash # Unset => prehash' = prehash

\* C3: the preimage and the digest are determined by the arguments, whatever
\* signature the signer returns, and building the unlocking script (or any
\* later step) leaves them unchanged.
C3_DigestIgnoresUnlockingScript ==
    [](DigestOfArguments) /\ [][DigestFrame]_vars

\* A call that returned after the signer drew its second signature.
C3_Witness ==
    /\ TxReturned
    /\ Len(signature) = 71
    /\ signature = sign(args.wifkey, prehash, 71, 1)
    /\ signature # sign(args.wifkey, prehash, 71, 0)
    /\ unlockingScript # Unset

Rank(p) ==
    CASE p = "called" -> 0
      [] p = "keys" -> 1
      [] p = "fields" -> 2
      [] p = "preimage" -> 3
      [] p = "signed" -> 4
      [] p = "unlocked" -> 5
      [] p = "serialized" -> 6
      [] p = "done" -> 7

\* Nothing is serialized or returned around an empty unlocking script.
NeverSerializedUnsigned ==
    TxCall =>
        /\ (rawtx # Unset \/ ret # Unset) => unlockingScript # Unset
        /\ pc \in {"serialized", "done"} =>
              /\ unlockingScript # Unset
              /\ SubSeq(rawtx, 43, 42 + Len(unlockingScript)) = unlockingScript
        /\ pc \in {"called", "keys", "fields", "preimage", "signed"} =>
              unlockingScript = Unset /\ rawtx = Unset /\ ret = Unset

\* One step of a running call.
PhaseStep ==
    (TxCall /\ ~AtRest) =>
        /\ pc' = "raised" \/ Rank(pc') = Rank(pc) + 1
        /\ prehash' # prehash =>
              pc = "preimage" /\ unlockingScript = Unset
                 /\ unlockingScript' = Unset
        /\ signature' # signature =>
              pc = "preimage" /\ unlockingScript' = Unset
        /\ unlockingScript' # unlockingScript =>
              pc = "signed" /\ unlockingScript = Unset
                 /\ unlockingScript' # Unset
        /\ rawtx' # rawtx =>
              pc = "unlocked" /\ unlockingScript # Unset
                 /\ unlockingScript' = unlockingScript
        /\ ret' # ret => pc = "serialized" /\ rawtx # Unset /\ rawtx' = rawtx

\* C4: a call goes forward only, through Unsigned (digest computed and signed
\* with the unlocking script empty), Signed (the script set once, from empty
\* to populated) and Serialized (raw transaction and identifier); nothing
\* with an empty unlocking script is serialized or returned.
C4_PhasesInOrder ==
    [](NeverSerializedUnsigned) /\ [][PhaseStep]_vars

\* A call that went through every phase and returned.
C4_Witness ==
    /\ TxReturned
    /\ unlockingScript # Unset
    /\ rawtx # Unset
    /\ ret = <<ToHex(rawtx), ToHex(txid)>>

\* C5: every message make_message returns is 24 + len(payload) bytes long,
\* holds len(payload) little-endian at offsets 16..19 and the first four
\* bytes of the payload's double-hash at offsets 20..23, and the payload from
\* offset 24 on.
C5_FrameLayout ==
    MsgReturned =>
        /\ Len(ret) = 24 + Len(args.payload)
        /\ LEValue(SubSeq(ret, 17, 20)) = LimbsOf(Len(args.payload))
        /\ SubSeq(ret, 21, 24) = SubSeq(dsha256(args.payload), 1, 4)
        /\ SubSeq(ret, 25, Len(ret)) = args.payload

\* C6: make_message fails with CommandTooLong for a command of more than 12
\* bytes and returns no message then; a command of exactly 12 bytes is
\* accepted and emitted without padding.
C6_CommandTooLongRejected ==
    (fn = "make_message" /\ AtRest /\ CanEncodeAscii(args.cmd)) =>
        /\ Len(args.cmd) > 12 =>
              pc = "raised" /\ exc = "CommandTooLong" /\ ret = Unset
        /\ Len(args.cmd) = 12 =>
              /\ pc = "done"
              /\ \A i \in 1..12 : AsciiLower[ret[4 + i] - 96] = args.cmd[i]

Max(a, b) == IF a >= b THEN a ELSE b

\* C7 as stated: when the unlocking script is built, an operand of exactly
\* 255 bytes is accepted and a transaction is produced, and one of 256 bytes
\* makes the construction fail.
C7_Operand255Accepted ==
    (TxCall /\ AtRest /\ prehash # Unset) =>
        /\ Max(Len(signature), Len(publicKey)) >= 256 =>
              pc = "raised" /\ ret = Unset
        /\ Max(Len(signature), Len(publicKey)) = 255 => pc = "done"

\* C7 as amended: an operand of 255 bytes makes the construction fail with
\* ValueError just as one of 256 bytes does, and no transaction is returned;
\* one is returned only if the whole unlocking script, len(signature) +
\* len(public key) + 3 bytes, is at most 255 bytes long.
C7_OperandLimit ==
    (TxCall /\ AtRest) =>
        /\ (Len(signature) >= 255 \/ PubKeyLen(args.wifkey) >= 255) =>
              pc = "raised" /\ ret = Unset
        /\ (pc = "raised" /\ prehash # Unset) => exc = "ValueError"
        /\ pc = "done" => Len(signature) + Len(publicKey) + 3 <= 255
        /\ (prehash # Unset /\ Len(signature) + Len(publicKey) + 3 <= 255)
              => pc = "done"

\* The construction failed on a 255-byte signature.
C7_Witness ==
    /\ TxCall /\ pc = "raised" /\ exc = "ValueError"
    /\ Len(signature) = 255
    /\ Len(publicKey) = 33

\* C8: construct_transaction returns a transaction only when
\* 0 < amount <= prevamount, and rejects every other call with InvalidAmount.
C8_InvalidAmountRejected ==
    (TxCall /\ AtRest) =>
        /\ pc = "done" =>
              /\ IntLess(PyInt(0), args.amount)
              /\ ~IntLess(args.prevamount, args.amount)
        /\ (~IntLess(PyInt(0), args.amount)
                \/ IntLess(args.prevamount, args.amount)) =>
              pc = "raised" /\ ret = Unset

\* The handshake payload's fields, the fixed part being `fixed` bytes long.
VersionLayout(fixed) ==
    LET addr == <<0, 0, 0, 0, 0, 0, 0, 0,
                  0, 0, 0, 0, 0, 0, 0, 0, 0, 0, 255, 255, 127, 0, 0, 1,
                  32, 141>>
    IN  /\ Len(ret) = fixed + 14
        /\ SubSeq(ret, 1, 4) = <<127, 17, 1, 0>>
        /\ SubSeq(ret, 5, 12) = <<0, 0, 0, 0, 0, 0, 0, 0>>
        /\ \E t \in Clock : LEValue(SubSeq(ret, 13, 20)) = t.limbs
        /\ SubSeq(ret, 21, 46) = addr
        /\ SubSeq(ret, 47, 72) = addr
        /\ \E r \in Nonces : LEValue(SubSeq(ret, fixed + 1, fixed + 8)) = r.limbs
        /\ ret[fixed + 9] = 0
        /\ LEValue(SubSeq(ret, fixed + 10, fixed + 13)) = args.last_block.limbs
        /\ ret[fixed + 14] = 0

\* C9 as stated: the payload is version, services, timestamp and two 26-byte
\* address records, a fixed part of 86 bytes, followed by a 14-byte trailer
\* (nonce, empty user agent, start height, relay).
C9_FixedPart86 ==
    (fn = "version_message" /\ AtRest) =>
        /\ CanToBytes(args.last_block, 4) => pc = "done"
        /\ pc = "done" => VersionLayout(86)

\* C9 as amended: version, services, timestamp and the two 26-byte address
\* records make a fixed part of 72 bytes, followed by the 14-byte trailer:
\* 86 bytes in all, for every start height that fits in 32 bits.
C9_FixedPart72 ==
    (fn = "version_message" /\ AtRest) =>
        /\ CanToBytes(args.last_block, 4) => pc = "done"
        /\ pc = "done" =>
              /\ VersionLayout(72)
              /\ Len(ret) = 86
              /\ CanToBytes(args.last_block, 4)

\* A handshake payload for the start height 2^32 - 1.
C9_Witness ==
    /\ VersionReturned
    /\ args.last_block = PyBig(<<65535, 65535>>)
    /\ SubSeq(ret, 82, 85) = <<255, 255, 255, 255>>

\* C10: in every raw transaction returned, the input count, the output count,
\* the unlocking-script length and the locking-script length are bytes below
\* 0xfd that equal the true count or length.
C10_PrefixBelowFD ==
    TxReturned =>
        LET n == Len(unlockingScript)
        IN  /\ rawtx[5] = 1 /\ rawtx[5] < 253
            /\ rawtx[42] = n /\ rawtx[42] < 253
            /\ rawtx[47 + n] = 1 /\ rawtx[47 + n] < 253
            /\ rawtx[56 + n] = Len(RecipientScript) /\ rawtx[56 + n] < 253

====
